---- MODULE Spec2Model ----
(***************************************************************************)
(* Verification model of torch3d:                                          *)
(*   torch3d/datasets/kitti.py  KITTIDetection (frame list, indexed        *)
(*                              access, calibration / label parsing,       *)
(*                              lidar_to_rect)                             *)
(*   torch3d/nn/conv.py         XConv and SetAbstraction (tensor shapes,   *)
(*                              neighbour selection, batch-norm buffers)   *)
(* Text is modelled as sequences of one-character strings, numpy arrays    *)
(* as sequences (of sequences), tensors by their shapes.                   *)
(***************************************************************************)
EXTENDS Integers, Sequences, FiniteSets, TLC

VARIABLES lidar, calib, rect,
          present, split, listing, dataset, item,
          calibtoks, calibfile, calibres, labeltoks, labelfile, labelres,
          layer, out, memo

rectVars  == <<lidar, calib, rect>>
frameVars == <<present, split, listing, dataset, item>>
parseVars == <<calibtoks, calibfile, calibres, labeltoks, labelfile, labelres>>
layerVars == <<layer, out, memo>>
vars == <<lidar, calib, rect, present, split, listing, dataset, item,
          calibtoks, calibfile, calibres, labeltoks, labelfile, labelres,
          layer, out, memo>>

\* every result is a record with a status field; Idle marks "not yet computed"
Idle == [status |-> "idle"]
Ok(v) == [status |-> "ok", value |-> v]
Raise(e) == [status |-> e]

(***************************************************************************)
(* Bounds                                                                  *)
(***************************************************************************)
MaxPoints == 2
MaxCoord == 1
MaxFiles == 3
MaxIndex == 3
MaxShort == 1
MaxLines == 2
MaxPts == 4
MaxForwards == 1

(***************************************************************************)
(* numpy helpers                                                           *)
(***************************************************************************)
RECURSIVE SumTo(_, _)
SumTo(f, n) == IF n = 0 THEN 0 ELSE f[n] + SumTo(f, n - 1)

\* ndarray.T of a 2-d array with r rows and c columns
Transpose(m, r, c) == [j \in 1..c |-> [i \in 1..r |-> m[i][j]]]

\* np.dot(a, b) for 2-d arrays: a is n x k, b is k x c
Dot(a, b, k, c) ==
    [i \in 1..Len(a) |->
        [j \in 1..c |-> SumTo([t \in 1..k |-> a[i][t] * b[t][j]], k)]]

(***************************************************************************)
(* KITTIDetection.lidar_to_rect                                            *)
(***************************************************************************)
\* lidar_to_rect with R0 left untransposed
lidar_to_rect_noT(l, c) ==
    LET n == Len(l)
        xyzw == [i \in 1..n |-> SubSeq(l[i], 1, 3) \o <<1>>]
        xyz == Dot(xyzw, Dot(Transpose(c.velo_to_cam, 3, 4), c.R0, 3, 3), 4, 3)
        intensity == [i \in 1..n |-> l[i][4]]
    IN  [i \in 1..n |-> xyz[i] \o <<intensity[i]>>]

\* lidar_to_rect taking the intensity from column 2 (z)
lidar_to_rect_col3(l, c) ==
    LET n == Len(l)
        xyzw == [i \in 1..n |-> SubSeq(l[i], 1, 3) \o <<1>>]
        xyz == Dot(xyzw, Dot(Transpose(c.velo_to_cam, 3, 4),
                             Transpose(c.R0, 3, 3), 3, 3), 4, 3)
        intensity == [i \in 1..n |-> l[i][3]]
    IN  [i \in 1..n |-> xyz[i] \o <<intensity[i]>>]

\* lidar_to_rect(lidar, calib)
lidar_to_rect(l, c) ==
    LET n == Len(l)
        xyzw == [i \in 1..n |-> SubSeq(l[i], 1, 3) \o <<1>>]
        xyz == Dot(xyzw, Dot(Transpose(c.velo_to_cam, 3, 4),
                             Transpose(c.R0, 3, 3), 3, 3), 4, 3)
        intensity == [i \in 1..n |-> l[i][4]]
    IN  [i \in 1..n |-> xyz[i] \o <<intensity[i]>>]

\* point clouds: rows (x, y, z, intensity)
CoordVals == 0..MaxCoord
IntensityVals == {5, 7}
PointRows == {<<x, y, z, w>> : x \in CoordVals, y \in {0, 2}, z \in {0, 3},
                               w \in IntensityVals}
PointClouds == UNION {[1..n -> PointRows] : n \in 0..MaxPoints}

\* calibrations: velo_to_cam is 3 x 4, R0 is 3 x 3
VeloToCamSet ==
    { <<<<1, 0, 0, 0>>, <<0, 1, 0, 0>>, <<0, 0, 1, 0>>>>,
      <<<<0, -1, 0, 1>>, <<0, 0, -1, 2>>, <<1, 0, 0, -3>>>>,
      <<<<2, 1, 0, 0>>, <<0, 1, 0, 4>>, <<0, 0, 1, 0>>>> }
R0Set ==
    { <<<<1, 0, 0>>, <<0, 1, 0>>, <<0, 0, 1>>>>,
      <<<<1, 0, 0>>, <<0, 0, -1>>, <<0, 1, 0>>>>,
      <<<<1, 2, 0>>, <<0, 1, 0>>, <<0, 3, 1>>>> }
Calibs == [status : {"ok"}, velo_to_cam : VeloToCamSet, R0 : R0Set]

IdleRect == lidar = <<>> /\ calib = Idle /\ rect = Idle
IdleFrames == /\ present = {} /\ split = "" /\ listing = {}
              /\ dataset = Idle /\ item = Idle
IdleParse == /\ calibtoks = <<>> /\ calibfile = <<>> /\ calibres = Idle
             /\ labeltoks = <<>> /\ labelfile = <<>> /\ labelres = Idle
IdleLayers == layer = Idle /\ out = Idle /\ memo = <<>>

InitRect ==
    /\ lidar \in PointClouds
    /\ calib \in Calibs
    /\ rect = Idle
    /\ IdleFrames /\ IdleParse /\ IdleLayers

Rectify ==
    /\ rect.status = "idle"
    /\ rect' = Ok(lidar_to_rect(lidar, calib))
    /\ UNCHANGED <<lidar, calib, frameVars, parseVars, layerVars>>

NextRect == Rectify
SpecRect == InitRect /\ [][NextRect]_vars

(***************************************************************************)
(* Claims about lidar_to_rect                                              *)
(***************************************************************************)
\* column-vector form of the transform: m * v for an r x c matrix
MatVec(m, v, r, c) == [i \in 1..r |-> SumTo([t \in 1..c |-> m[i][t] * v[t]], c)]

IdentityVeloToCam == <<<<1, 0, 0, 0>>, <<0, 1, 0, 0>>, <<0, 0, 1, 0>>>>
IdentityR0 == <<<<1, 0, 0>>, <<0, 1, 0>>, <<0, 0, 1>>>>

\* C1: lidar_to_rect returns exactly N rows in the input order and row i of
\* the output carries the intensity (4th value) of row i of the input.
C1_RowsAndIntensityKept ==
    rect.status = "ok" =>
        /\ Len(rect.value) = Len(lidar)
        /\ \A i \in 1..Len(lidar) :
              Len(rect.value[i]) = 4 /\ rect.value[i][4] = lidar[i][4]

C1_Witness ==
    /\ rect.status = "ok"
    /\ Len(lidar) = 2
    /\ lidar[1][4] # lidar[2][4]
    /\ lidar[1][3] # lidar[1][4]
    /\ calib.velo_to_cam # IdentityVeloToCam

\* C2: the (x, y, z) output of lidar_to_rect is R0 * (velo_to_cam * (x, y, z, 1)^T),
\* velo_to_cam applied first and R0 second; with velo_to_cam = [I | 0] and
\* R0 = I the (x, y, z) output equals the input (x, y, z).
C2_VeloToCamThenR0 ==
    rect.status = "ok" =>
        \A i \in 1..Len(lidar) :
            /\ SubSeq(rect.value[i], 1, 3) =
                  MatVec(calib.R0,
                         MatVec(calib.velo_to_cam,
                                SubSeq(lidar[i], 1, 3) \o <<1>>, 3, 4), 3, 3)
            /\ (calib.velo_to_cam = IdentityVeloToCam /\ calib.R0 = IdentityR0)
                  => SubSeq(rect.value[i], 1, 3) = SubSeq(lidar[i], 1, 3)

C2_Witness ==
    /\ rect.status = "ok"
    /\ Len(lidar) >= 1
    /\ calib.velo_to_cam # IdentityVeloToCam
    /\ calib.R0 # IdentityR0
    /\ calib.R0 # Transpose(calib.R0, 3, 3)
    /\ SubSeq(rect.value[1], 1, 3) # SubSeq(lidar[1], 1, 3)

(***************************************************************************)
(* Text helpers (str methods used by kitti.py)                             *)
(***************************************************************************)
Digits == <<"0", "1", "2", "3", "4", "5", "6", "7", "8", "9">>
IsDigit(c) == \E d \in 1..10 : Digits[d] = c
DigitVal(c) == (CHOOSE d \in 1..10 : Digits[d] = c) - 1
IsSpace(c) == c \in {" ", "\n", "\t", "\r"}

\* value of a non-empty run of decimal digits
RECURSIVE DigitsVal(_)
DigitsVal(s) ==
    IF Len(s) = 0 THEN 0
    ELSE 10 * DigitsVal(SubSeq(s, 1, Len(s) - 1)) + DigitVal(s[Len(s)])

\* str.strip()
RECURSIVE lstrip(_)
lstrip(s) == IF Len(s) > 0 /\ IsSpace(s[1]) THEN lstrip(Tail(s)) ELSE s
RECURSIVE rstrip(_)
rstrip(s) ==
    IF Len(s) > 0 /\ IsSpace(s[Len(s)]) THEN rstrip(SubSeq(s, 1, Len(s) - 1))
    ELSE s
strip(s) == rstrip(lstrip(s))

\* str.split(sep) for a one-character separator: the list of fields
RECURSIVE split_acc(_, _, _)
split_acc(s, sep, cur) ==
    IF Len(s) = 0 THEN <<cur>>
    ELSE IF s[1] = sep THEN <<cur>> \o split_acc(Tail(s), sep, <<>>)
    ELSE split_acc(Tail(s), sep, Append(cur, s[1]))
str_split(s, sep) == split_acc(s, sep, <<>>)

\* int(s): surrounding whitespace and one sign are accepted, then digits only
py_int(s) ==
    LET t == strip(s)
        neg == Len(t) > 0 /\ t[1] = "-"
        body == IF Len(t) > 0 /\ t[1] \in {"-", "+"} THEN Tail(t) ELSE t
    IN  IF Len(body) > 0 /\ \A k \in 1..Len(body) : IsDigit(body[k])
        THEN Ok(IF neg THEN 0 - DigitsVal(body) ELSE DigitsVal(body))
        ELSE Raise("ValueError")

\* "{:06d}".format(n) for n >= 0: decimal digits, zero-padded to width 6
RECURSIVE decimal(_)
decimal(n) == IF n < 10 THEN <<Digits[n + 1]>>
              ELSE Append(decimal(n \div 10), Digits[(n % 10) + 1])
format_06d(n) ==
    LET d == decimal(n)
    IN  [k \in 1..(IF Len(d) < 6 THEN 6 - Len(d) ELSE 0) |-> "0"] \o d

(***************************************************************************)
(* KITTIDetection.__init__ : integrity check and frame list                *)
(***************************************************************************)
\* re.match("^[0-9]{6}.bin$", x): "." is any character but a newline and
\* "$" also matches just before a trailing newline
re_match(x) ==
    /\ Len(x) >= 10
    /\ \A k \in 1..6 : IsDigit(x[k])
    /\ x[7] # "\n"
    /\ x[8] = "b" /\ x[9] = "i" /\ x[10] = "n"
    /\ \/ Len(x) = 10
       \/ Len(x) = 11 /\ x[11] = "\n"

\* int(x.split(".")[0])
frame_of(x) == py_int(str_split(x, ".")[1])

\* sorted([...]) of the integers of a set of names (every one an integer);
\* os.listdir gives the names in no particular order
RECURSIVE sorted_frames(_)
sorted_frames(S) ==
    IF S = {} THEN <<>>
    ELSE LET x == CHOOSE x \in S :
                     \A y \in S : frame_of(x).value <= frame_of(y).value
         IN  <<frame_of(x).value>> \o sorted_frames(S \ {x})

split_dir(sp) == IF sp \in {"train", "val"} THEN "training" ELSE "testing"

\* KITTIDetection._check_integrity
check_integrity(dirs, sp) ==
    /\ "image_2" \in dirs
    /\ "calib" \in dirs
    /\ "velodyne" \in dirs
    /\ (IF split_dir(sp) = "training" THEN "label_2" \in dirs ELSE TRUE)

\* KITTIDetection.__init__(root, split, transforms=None, rectified)
kitti_init(dirs, sp, names, rectified) ==
    LET matched == {x \in names : re_match(x)}
    IN  IF ~check_integrity(dirs, sp) THEN Raise("RuntimeError")
        ELSE IF \E x \in matched : frame_of(x).status # "ok"
        THEN Raise("ValueError")
        ELSE [status |-> "ok", split |-> split_dir(sp),
              rectified |-> rectified, framelist |-> sorted_frames(matched)]

\* Python list indexing framelist[i]
\* list indexing that rejects negative indices
list_index_nonneg(fl, i) ==
    IF i >= 0 /\ i < Len(fl) THEN Ok(fl[i + 1]) ELSE Raise("IndexError")

list_index(fl, i) ==
    IF i >= Len(fl) \/ i < 0 - Len(fl) THEN Raise("IndexError")
    ELSE Ok(fl[(IF i < 0 THEN Len(fl) + i ELSE i) + 1])

\* KITTIDetection.__getitem__(i): the frame it resolves and the files that
\* _get_image, _get_lidar, _get_calib and _get_label open for it (their
\* parsing and lidar_to_rect are modelled by parse_kitti_calib,
\* parse_kitti_label and lidar_to_rect)
kitti_getitem(ds, i) ==
    LET f == list_index(ds.framelist, i)
    IN  IF f.status # "ok" THEN [status |-> f.status, index |-> i]
        ELSE [status |-> "ok", index |-> i, frameid |-> f.value,
              image |-> format_06d(f.value) \o <<".", "p", "n", "g">>,
              lidar |-> format_06d(f.value) \o <<".", "b", "i", "n">>,
              calib |-> format_06d(f.value) \o <<".", "t", "x", "t">>,
              target |-> IF ds.split = "training"
                         THEN format_06d(f.value) \o <<".", "t", "x", "t">>
                         ELSE <<>>,
              rectified |-> ds.rectified]

\* file names that may be found in the velodyne directory
NamePool ==
    { <<"0", "0", "0", "0", "0", "0", ".", "b", "i", "n">>,
      <<"0", "0", "0", "0", "0", "7", ".", "b", "i", "n">>,
      <<"0", "0", "0", "0", "1", "0", ".", "b", "i", "n">>,
      <<"0", "0", "7", "4", "8", "0", ".", "b", "i", "n">>,
      <<"0", "0", "0", "0", "7", ".", "b", "i", "n">>,
      <<"0", "0", "0", "0", "0", "3", ".", "t", "x", "t">>,
      <<"0", "0", "0", "0", "0", "5", "x", "b", "i", "n">>,
      <<"0", "0", "0", "0", "0", "9", ".", "b", "i", "n", "\n">>,
      <<"0", "0", "0", "0", "0", "2", ".", "b", "i", "n", ".", "b", "a", "k">> }
Listings == {S \in SUBSET NamePool : Cardinality(S) <= MaxFiles}
SplitDirs == {"image_2", "velodyne", "label_2", "calib"}

InitFrames ==
    /\ present \in SUBSET SplitDirs
    /\ split \in {"train", "val", "test"}
    /\ listing \in Listings
    /\ ("velodyne" \notin present => listing = {})
    /\ dataset = Idle
    /\ item = Idle
    /\ IdleRect /\ IdleParse /\ IdleLayers

Construct ==
    /\ dataset.status = "idle"
    /\ \E rectified \in BOOLEAN :
          dataset' = kitti_init(present, split, listing, rectified)
    /\ UNCHANGED <<present, split, listing, item, rectVars, parseVars, layerVars>>

GetItem ==
    /\ dataset.status = "ok"
    /\ \E i \in (0 - MaxIndex)..MaxIndex : item' = kitti_getitem(dataset, i)
    /\ UNCHANGED <<present, split, listing, dataset, rectVars, parseVars, layerVars>>

NextFrames == Construct \/ GetItem
SpecFrames == InitFrames /\ [][NextFrames]_vars

(***************************************************************************)
(* Claims about the frame list and indexed access                          *)
(***************************************************************************)
\* a name that is literally six decimal digits followed by ".bin"
SixDigitsDotBin(x) ==
    /\ Len(x) = 10
    /\ \A k \in 1..6 : IsDigit(x[k])
    /\ SubSeq(x, 7, 10) = <<".", "b", "i", "n">>

IsAscending(fl) == \A k \in 1..(Len(fl) - 1) : fl[k] <= fl[k + 1]

\* C3: whatever names the velodyne directory holds, construction (when the
\* directories exist) succeeds and the frame list is exactly the ascending
\* integers of the names that are six digits followed by ".bin".
C3_FrameListExact ==
    (dataset.status # "idle" /\ check_integrity(present, split)) =>
        /\ dataset.status = "ok"
        /\ IsAscending(dataset.framelist)
        /\ Len(dataset.framelist) =
              Cardinality({x \in listing : SixDigitsDotBin(x)})
        /\ \A x \in listing :
              SixDigitsDotBin(x) <=>
                 \E k \in 1..Len(dataset.framelist) :
                    format_06d(dataset.framelist[k]) = SubSeq(x, 1, 6)

\* the number of frames of the list below / not above a frame identifier
Below(fl, f) == Cardinality({k \in 1..Len(fl) : fl[k] < f})
NotAbove(fl, f) == Cardinality({k \in 1..Len(fl) : fl[k] <= f})
IsRankedAt(fl, f, r) == Below(fl, f) <= r /\ r < NotAbove(fl, f)

SampleOf(it, f) ==
    /\ it.status = "ok"
    /\ it.frameid = f
    /\ SubSeq(it.lidar, 1, 6) = format_06d(f)
    /\ SubSeq(it.image, 1, 6) = format_06d(f)
    /\ SubSeq(it.calib, 1, 6) = format_06d(f)

\* C4 as stated: dataset[i] is the sample of the i-th smallest frame for
\* 0 <= i < n and an index error for every i < 0 and every i >= n.
C4_NegativeIndexFails ==
    (dataset.status = "ok" /\ item.status # "idle") =>
        LET n == Len(dataset.framelist)
        IN  IF 0 <= item.index /\ item.index < n
            THEN item.status = "ok"
                 /\ IsRankedAt(dataset.framelist, item.frameid, item.index)
            ELSE item.status = "IndexError"

\* C4 amended: dataset[i] is the sample of the i-th smallest frame for
\* 0 <= i < n, the sample of the (n + i)-th smallest for -n <= i < 0, and an
\* index error exactly when i >= n or i < -n.
C4_PythonIndexing ==
    (dataset.status = "ok" /\ item.status # "idle") =>
        LET n == Len(dataset.framelist)
            i == item.index
        IN  IF 0 <= i /\ i < n
            THEN /\ SampleOf(item, item.frameid)
                 /\ IsRankedAt(dataset.framelist, item.frameid, i)
            ELSE IF 0 - n <= i /\ i < 0
            THEN /\ SampleOf(item, item.frameid)
                 /\ IsRankedAt(dataset.framelist, item.frameid, n + i)
            ELSE item.status = "IndexError"

C4_Witness ==
    /\ dataset.status = "ok"
    /\ Len(dataset.framelist) = 3
    /\ item.status = "ok"
    /\ item.index = 1
    /\ item.frameid = 7
    /\ item.lidar = <<"0", "0", "0", "0", "0", "7", ".", "b", "i", "n">>

(***************************************************************************)
(* parse_kitti_calib and parse_kitti_label                                 *)
(***************************************************************************)
Min(a, b) == IF a < b THEN a ELSE b

\* Python slice x[a:b] of a list (0-based, end exclusive, clipped)
py_slice(x, a, b) == SubSeq(x, a + 1, Min(b, Len(x)))

\* position of the first c in s, 0 when absent
first_index(s, c) ==
    IF \E k \in 1..Len(s) : s[k] = c
    THEN CHOOSE k \in 1..Len(s) : s[k] = c /\ \A j \in 1..(k - 1) : s[j] # c
    ELSE 0

\* a float is kept exactly as <<m, e>> = m / 10^e with the least e >= 0
RECURSIVE normalize(_, _)
normalize(m, e) ==
    IF e < 0 THEN normalize(m * 10, e + 1)
    ELSE IF e > 0 /\ m % 10 = 0 THEN normalize(m \div 10, e - 1)
    ELSE <<m, e>>

AllDigits(s) == \A k \in 1..Len(s) : IsDigit(s[k])

\* float(s): whitespace, sign, digits with at most one ".", optional exponent
py_float(s) ==
    LET t == strip(s)
        neg == Len(t) > 0 /\ t[1] = "-"
        body == IF Len(t) > 0 /\ t[1] \in {"-", "+"} THEN Tail(t) ELSE t
        ei == first_index(body, "e")
        mant == IF ei = 0 THEN body ELSE SubSeq(body, 1, ei - 1)
        expo == IF ei = 0 THEN <<"0">> ELSE SubSeq(body, ei + 1, Len(body))
        ex == py_int(expo)
        di == first_index(mant, ".")
        ipart == IF di = 0 THEN mant ELSE SubSeq(mant, 1, di - 1)
        fpart == IF di = 0 THEN <<>> ELSE SubSeq(mant, di + 1, Len(mant))
        m == DigitsVal(ipart \o fpart)
    IN  IF /\ Len(ipart) + Len(fpart) > 0
           /\ AllDigits(ipart) /\ AllDigits(fpart)
           /\ ex.status = "ok" /\ expo = strip(expo)
        THEN Ok(normalize(IF neg THEN 0 - m ELSE m, Len(fpart) - ex.value))
        ELSE Raise("ValueError")

\* [line.strip().split(" ") for line in fp.readlines()]
tokenize(file) == [k \in 1..Len(file) |-> str_split(strip(file[k]), " ")]

\* the first status of a sequence of results that is not "ok" ("ok" if none)
RECURSIVE first_error(_)
first_error(rs) ==
    IF Len(rs) = 0 THEN "ok"
    ELSE IF Head(rs).status # "ok" THEN Head(rs).status
    ELSE first_error(Tail(rs))

\* The idiom  CHOOSE r \in {e(v) : v \in {x}} : TRUE  evaluates x once and
\* names its value v in e.

\* a list comprehension: the list of the values, or the first error raised
collect(rs) ==
    CHOOSE r \in { IF first_error(v) # "ok" THEN Raise(first_error(v))
                   ELSE Ok([k \in 1..Len(v) |-> v[k].value]) : v \in {rs} } : TRUE

\* [float(x) for x in xs]
floats(xs) == collect([k \in 1..Len(xs) |-> py_float(xs[k])])

\* ndarray.reshape(r, c) of a flat array
\* a reshape that pads or truncates instead of raising
reshape_loose(a, r, c) ==
    Ok([i \in 1..r |-> [j \in 1..c |->
            IF (i - 1) * c + j <= Len(a) THEN a[(i - 1) * c + j] ELSE <<0, 0>>]])

reshape(a, r, c) ==
    IF Len(a) # r * c THEN Raise("ValueError")
    ELSE Ok([i \in 1..r |-> [j \in 1..c |-> a[(i - 1) * c + j]]])

\* name, number of values and matrix shape of the seven calibration lines
CalibKeys == <<"P0", "P1", "P2", "P3", "R0", "velo_to_cam", "imu_to_velo">>
CalibEnd == <<13, 13, 13, 13, 10, 13, 13>>
CalibCols == <<4, 4, 4, 4, 3, 4, 4>>

\* parse_kitti_calib, lines 120-127: the reshapes of the seven flat arrays
calib_reshape(flat) ==
    CHOOSE r \in
      { IF first_error(mats) # "ok" THEN Raise(first_error(mats))
        ELSE [status |-> "ok",
              P0 |-> mats[1].value, P1 |-> mats[2].value,
              P2 |-> mats[3].value, P3 |-> mats[4].value,
              R0 |-> mats[5].value, velo_to_cam |-> mats[6].value,
              imu_to_velo |-> mats[7].value] :
        mats \in { [k \in 1..7 |-> reshape(flat[k].value, 3, CalibCols[k])] } } : TRUE

\* parse_kitti_calib, lines 113-119: the seven flat arrays of the token lists
calib_arrays(lines) ==
    CHOOSE r \in
      { IF first_error(flat) # "ok" THEN Raise(first_error(flat))
        ELSE calib_reshape(flat) :
        flat \in { [k \in 1..7 |->
                     IF Len(lines) < k THEN Raise("IndexError")
                     ELSE floats(py_slice(lines[k], 1, CalibEnd[k]))] } } : TRUE

\* KITTIDetection.parse_kitti_calib
parse_kitti_calib(file) ==
    CHOOSE r \in { calib_arrays(lines) : lines \in {tokenize(file)} } : TRUE

\* x[k] of a token list (0-based)
py_item(x, k) == IF k < Len(x) THEN Ok(x[k + 1]) ELSE Raise("IndexError")

\* np.array([x[k] for x in lines])
column_str(lines, k) ==
    collect([i \in 1..Len(lines) |-> py_item(lines[i], k)])

\* np.array([float(x[k]) for x in lines])
column_float(lines, k) ==
    collect([i \in 1..Len(lines) |->
                IF py_item(lines[i], k).status # "ok" THEN py_item(lines[i], k)
                ELSE py_float(py_item(lines[i], k).value)])

\* np.array([int(x[k]) for x in lines])
column_int(lines, k) ==
    collect([i \in 1..Len(lines) |->
                IF py_item(lines[i], k).status # "ok" THEN py_item(lines[i], k)
                ELSE py_int(py_item(lines[i], k).value)])

\* np.array([[float(v) for v in x[a:b]] for x in lines]); rows of unequal
\* length are rejected by numpy >= 1.24 and kept as an object array before
block(lines, a, b, ragged_raises) ==
    CHOOSE r \in
      { IF rows.status # "ok" THEN rows
        ELSE IF ragged_raises /\ \E i, j \in 1..Len(lines) :
                    Len(rows.value[i]) # Len(rows.value[j])
        THEN Raise("ValueError")
        ELSE rows :
        rows \in { collect([i \in 1..Len(lines) |->
                              floats(py_slice(lines[i], a, b))]) } } : TRUE

RECURSIVE flatten(_)
flatten(rows) == IF Len(rows) = 0 THEN <<>> ELSE Head(rows) \o flatten(Tail(rows))

\* ndarray.reshape(-1, c)
reshape_rows(rows, c) ==
    CHOOSE r \in { IF Len(a) % c # 0 THEN Raise("ValueError")
                   ELSE reshape(a, Len(a) \div c, c) : a \in {flatten(rows)} } : TRUE

\* parse_kitti_label, lines 150-154: reshapes and the returned dictionary
label_result(cols) ==
    CHOOSE r \in
      { IF first_error(shaped) # "ok" THEN Raise(first_error(shaped))
        ELSE [status |-> "ok",
              class |-> cols[1].value, truncated |-> cols[2].value,
              occluded |-> cols[3].value, alpha |-> cols[4].value,
              bbox |-> shaped[1].value, size |-> shaped[2].value,
              center |-> shaped[3].value, yaw |-> cols[8].value] :
        shaped \in { << reshape_rows(cols[5].value, 4),
                        reshape_rows(cols[6].value, 3),
                        reshape_rows(cols[7].value, 3) >> } } : TRUE

\* parse_kitti_label, lines 142-149: the eight arrays in statement order,
\* with the field offsets as parameters
label_columns(lines, ragged_raises, b0, s0, c0, y0) ==
    CHOOSE r \in
      { IF first_error(cols) # "ok" THEN Raise(first_error(cols))
        ELSE label_result(cols) :
        cols \in { << column_str(lines, 0), column_float(lines, 1),
                      column_int(lines, 2), column_float(lines, 3),
                      block(lines, b0, b0 + 4, ragged_raises),
                      block(lines, s0, s0 + 3, ragged_raises),
                      block(lines, c0, c0 + 3, ragged_raises),
                      column_float(lines, y0) >> } } : TRUE

\* KITTIDetection.parse_kitti_label with the field offsets as parameters
parse_label_at(file, ragged_raises, b0, s0, c0, y0) ==
    CHOOSE r \in { label_columns(lines, ragged_raises, b0, s0, c0, y0) :
                   lines \in {tokenize(file)} } : TRUE

\* parse_kitti_label with the bbox slice one token late
parse_kitti_label_shifted(file, ragged_raises) ==
    parse_label_at(file, ragged_raises, 5, 8, 11, 14)

parse_kitti_label(file, ragged_raises) ==
    parse_label_at(file, ragged_raises, 4, 8, 11, 14)

\* " ".join(tokens) + "\n"
RECURSIVE join(_)
join(toks) ==
    IF Len(toks) = 0 THEN <<>>
    ELSE IF Len(toks) = 1 THEN toks[1]
    ELSE toks[1] \o <<" ">> \o join(Tail(toks))
text_of(toklists) == [k \in 1..Len(toklists) |-> join(toklists[k]) \o <<"\n">>]

\* numerals found in calibration files
Numerals ==
    << <<"1">>, <<"0", ".", "5">>, <<"-", "2">>, <<"7", ".", "5", "e", "-", "0", "1">>,
       <<"0">>, <<"1", "e", "+", "0", "1">> >>
CalibLabels ==
    << <<"P", "0", ":">>, <<"P", "1", ":">>, <<"P", "2", ":">>, <<"P", "3", ":">>,
       <<"R", "0", "_", "r", "e", "c", "t", ":">>,
       <<"T", "r", "_", "v", "e", "l", "o", "_", "t", "o", "_", "c", "a", "m", ":">>,
       <<"T", "r", "_", "i", "m", "u", "_", "t", "o", "_", "v", "e", "l", "o", ":">> >>
\* number of values the matrix of line k holds
CalibNeed == [k \in 1..7 |-> 3 * CalibCols[k]]
calib_line(k, n) ==
    <<CalibLabels[k]>> \o [j \in 1..n |-> Numerals[((k + j) % Len(Numerals)) + 1]]
\* calibration files: 6 or 7 lines, at most two of them with a wrong number
\* of values (up to MaxShort values short, or one value long)
CalibOffsets ==
    { off \in [1..7 -> (0 - MaxShort)..1] :
         Cardinality({k \in 1..7 : off[k] # 0}) <= 2 }
CalibTokLists ==
    { [k \in 1..nl |-> calib_line(k, CalibNeed[k] + off[k])] :
         nl \in 6..7, off \in CalibOffsets }
ShortCalib == [k \in 1..7 |-> calib_line(k, IF k = 5 THEN 8 ELSE CalibNeed[k])]

\* label lines: the line of the KITTI read-me, a DontCare line, and a result
\* line carrying a 16th token (the score)
LabelBase ==
    << << <<"C", "a", "r">>, <<"0", ".", "0">>, <<"0">>, <<"-", "1", ".", "5">>,
          <<"1", "0">>, <<"2", "0">>, <<"3", "0">>, <<"4", "0">>,
          <<"1", ".", "5">>, <<"1", ".", "6">>, <<"3", ".", "8">>,
          <<"1", ".", "0">>, <<"1", ".", "0">>, <<"5", ".", "0">>,
          <<"1", ".", "5", "7">> >>,
       << <<"D", "o", "n", "t", "C", "a", "r", "e">>, <<"-", "1">>, <<"-", "1">>,
          <<"-", "1", "0">>, <<"5", ".", "5">>, <<"6">>, <<"7">>, <<"8">>,
          <<"-", "1">>, <<"-", "1">>, <<"-", "1">>,
          <<"-", "1", "0", "0", "0">>, <<"-", "1", "0", "0", "0">>,
          <<"-", "1", "0", "0", "0">>, <<"-", "1", "0">> >>,
       << <<"V", "a", "n">>, <<"0", ".", "2", "5">>, <<"3">>, <<"2", "e", "+", "0", "0">>,
          <<"1">>, <<"2">>, <<"3">>, <<"4">>, <<"5">>, <<"6">>, <<"7">>,
          <<"8">>, <<"9">>, <<"1", "1">>, <<"1", "2">>, <<"0", ".", "9">> >> >>
LabelLines ==
    UNION { { SubSeq(LabelBase[b], 1, n) : n \in (15 - MaxShort)..Len(LabelBase[b]) } :
               b \in 1..Len(LabelBase) }
LabelTokLists == UNION {[1..n -> LabelLines] : n \in 0..MaxLines}
ShortLabel == <<SubSeq(LabelBase[1], 1, 15), SubSeq(LabelBase[2], 1, 14)>>

InitParse ==
    /\ \/ calibtoks \in CalibTokLists /\ labeltoks = ShortLabel
       \/ calibtoks = ShortCalib /\ labeltoks \in LabelTokLists
    /\ calibfile = text_of(calibtoks)
    /\ labelfile = text_of(labeltoks)
    /\ calibres = Idle
    /\ labelres = Idle
    /\ IdleRect /\ IdleFrames /\ IdleLayers

\* KITTIDetection._get_calib
ParseCalib ==
    /\ calibres.status = "idle"
    /\ calibres' = parse_kitti_calib(calibfile)
    /\ UNCHANGED <<calibtoks, calibfile, labeltoks, labelfile, labelres,
                   rectVars, frameVars, layerVars>>

\* KITTIDetection._get_label
ParseLabel ==
    /\ labelres.status = "idle"
    /\ \E ragged_raises \in BOOLEAN :
          labelres' = parse_kitti_label(labelfile, ragged_raises)
    /\ UNCHANGED <<calibtoks, calibfile, calibres, labeltoks, labelfile,
                   rectVars, frameVars, layerVars>>

NextParse == ParseCalib \/ ParseLabel
SpecParse == InitParse /\ [][NextParse]_vars

(***************************************************************************)
(* Claims about the parsers                                                *)
(***************************************************************************)
\* C5: parse_kitti_calib raises whenever one of the 7 lines has fewer values
\* than its matrix needs (12, or 9 for R0), parse_kitti_label raises whenever
\* a line has fewer than 15 tokens; no result is returned in either case.
C5_ShortLinesRaise ==
    /\ (/\ calibres.status # "idle"
        /\ \E k \in 1..7 : Len(calibtoks) < k
                           \/ Len(calibtoks[k]) - 1 < CalibNeed[k])
          => calibres.status \in {"ValueError", "IndexError"}
    /\ (/\ labelres.status # "idle"
        /\ \E k \in 1..Len(labeltoks) : Len(labeltoks[k]) < 15)
          => labelres.status \in {"ValueError", "IndexError"}

C5_Witness ==
    /\ calibres.status = "ValueError"
    /\ Len(calibtoks) = 7
    /\ Len(calibtoks[5]) - 1 = 8
    /\ \A k \in {1, 2, 3, 4, 6, 7} : Len(calibtoks[k]) - 1 = 12
    /\ labelres.status = "IndexError"
    /\ Len(labeltoks) = 2
    /\ Len(labeltoks[1]) = 15 /\ Len(labeltoks[2]) = 14

Floats(toks) == [k \in 1..Len(toks) |-> py_float(toks[k]).value]

\* C6: for a label file of n lines of at least 15 tokens each, the eight
\* sequences returned by parse_kitti_label all have length n and entry j is
\* built from line j by position: class = token 0, truncated = token 1,
\* occluded = token 2, alpha = token 3, bbox = tokens 4-7, size = tokens 8-10,
\* center = tokens 11-13, yaw = token 14.
C6_LabelFieldsByPosition ==
    (/\ labelres.status # "idle"
     /\ \A k \in 1..Len(labeltoks) : Len(labeltoks[k]) >= 15) =>
        LET n == Len(labeltoks)
        IN  /\ labelres.status = "ok"
            /\ \A f \in {"class", "truncated", "occluded", "alpha",
                         "bbox", "size", "center", "yaw"} :
                  Len(labelres[f]) = n
            /\ \A j \in 1..n :
                  LET t == labeltoks[j]
                  IN  /\ labelres.class[j] = t[1]
                      /\ labelres.truncated[j] = py_float(t[2]).value
                      /\ labelres.occluded[j] = py_int(t[3]).value
                      /\ labelres.alpha[j] = py_float(t[4]).value
                      /\ labelres.bbox[j] = Floats(SubSeq(t, 5, 8))
                      /\ labelres.size[j] = Floats(SubSeq(t, 9, 11))
                      /\ labelres.center[j] = Floats(SubSeq(t, 12, 14))
                      /\ labelres.yaw[j] = py_float(t[15]).value

\* the example of the specification: "Car 0.0 0 -1.5 10 20 30 40 1.5 1.6 3.8
\* 1.0 1.0 5.0 1.57" as the second of two lines
C6_Witness ==
    /\ labelres.status = "ok"
    /\ Len(labeltoks) = 2
    /\ Len(labeltoks[1]) = 16
    /\ labelfile[2] = join(LabelBase[1]) \o <<"\n">>
    /\ labelres.class[2] = <<"C", "a", "r">>
    /\ labelres.truncated[2] = <<0, 0>>
    /\ labelres.occluded[2] = 0
    /\ labelres.alpha[2] = <<-15, 1>>
    /\ labelres.bbox[2] = << <<10, 0>>, <<20, 0>>, <<30, 0>>, <<40, 0>> >>
    /\ labelres.size[2] = << <<15, 1>>, <<16, 1>>, <<38, 1>> >>
    /\ labelres.center[2] = << <<1, 0>>, <<1, 0>>, <<5, 0>> >>
    /\ labelres.yaw[2] = <<157, 2>>

(***************************************************************************)
(* torch3d.nn.conv : XConv and SetAbstraction                              *)
(* A tensor is modelled by its shape; optional arguments (None or a value) *)
(* are sequences of length 0 or 1.  The batch-norm buffers of a layer are  *)
(* represented by num_batches_tracked of each nn.Sequential block:         *)
(* running_mean and running_var are rewritten exactly when it is bumped.   *)
(***************************************************************************)
None == <<>>
Some(v) == <<v>>

\* coordinates of the points and queries handed to forward
Pool == << <<0, 0, 0>>, <<1, 0, 0>>, <<0, 2, 0>>, <<3, 3, 1>>, <<1, 1, 1>> >>
points_of(a) ==
    [b \in 1..a.B |-> [i \in 1..a.P |-> Pool[((i + b - 2) % Len(Pool)) + 1]]]
queries_of(a) ==
    [b \in 1..a.B |-> [j \in 1..a.Q |-> Pool[((2 * j + b) % Len(Pool)) + 1]]]

sqdist(u, v) ==
    (u[1] - v[1]) * (u[1] - v[1]) + (u[2] - v[2]) * (u[2] - v[2])
      + (u[3] - v[3]) * (u[3] - v[3])

\* F.knn(p, q, K) for one query: the 0-based indices of the K nearest points
\* in ascending distance (ties by index)
knn_row(pts, qpt, K) ==
    LET before(i, j) == \/ sqdist(pts[i], qpt) < sqdist(pts[j], qpt)
                        \/ sqdist(pts[i], qpt) = sqdist(pts[j], qpt) /\ i < j
        rank(i) == Cardinality({j \in 1..Len(pts) : before(j, i)})
    IN  [r \in 1..K |-> (CHOOSE i \in 1..Len(pts) : rank(i) = r - 1) - 1]

\* F.knn(p, q, K): indices of shape (B, Q, K); K neighbours need K points
knn(p, q, K) ==
    IF K > Len(p[1]) THEN Raise("RuntimeError")
    ELSE Ok([b \in 1..Len(p) |-> [j \in 1..Len(q[b]) |-> knn_row(p[b], q[b][j], K)]])

\* F.ball_point(p, q, radius, k) for one query: the first k points within
\* radius, padded with the first of them (index 0 when there is none)
ball_row(pts, qpt, radius, k) ==
    LET inside == {i \in 1..Len(pts) : sqdist(pts[i], qpt) <= radius * radius}
        nth(n) == CHOOSE i \in inside : Cardinality({j \in inside : j < i}) = n - 1
    IN  [r \in 1..k |-> IF inside = {} THEN 0
                        ELSE IF r <= Cardinality(inside) THEN nth(r) - 1
                        ELSE nth(1) - 1]

\* F.ball_point(p, q, radius, k): indices of shape (B, Q, k)
ball_point(p, q, radius, k) ==
    IF k = None THEN Raise("TypeError")
    ELSE Ok([b \in 1..Len(p) |->
               [j \in 1..Len(q[b]) |-> ball_row(p[b], q[b][j], radius[1], k[1])]])

\* the first len / step entries instead of every step-th
every_first(row, step) == SubSeq(row, 1, Len(row) \div step)

\* indices[..., ::step]
every_nth(row, step) ==
    [t \in 1..((Len(row) + step - 1) \div step) |-> row[(t - 1) * step + 1]]

\* nn.Conv2d(cin, cout, [kh, kw]) applied to a (B, C, H, W) tensor
conv2d(shape, cin, cout, kh, kw) ==
    IF shape[2] # cin \/ shape[3] < kh \/ shape[4] < kw THEN Raise("RuntimeError")
    ELSE Ok(<<shape[1], cout, shape[3] - kh + 1, shape[4] - kw + 1>>)

\* nn.BatchNorm2d on a (B, C, H, W) tensor: training mode needs more than one
\* value per channel
batch_norm(shape, training) ==
    IF training /\ shape[1] * shape[3] * shape[4] <= 1 THEN Raise("ValueError")
    ELSE Ok(shape)

\* buffers rewritten in evaluation mode too
bn_tracked_always(n, training) == n + 1

\* the buffers of a block of batch norms after one pass through it
bn_tracked(n, training) == IF training THEN n + 1 ELSE n

\* nn.MaxPool2d([1, k]) on a (B, C, H, W) tensor (stride = kernel size)
max_pool(shape, k) ==
    IF k = None THEN Raise("TypeError")
    ELSE IF shape[4] < k[1] THEN Raise("RuntimeError")
    ELSE Ok(<<shape[1], shape[2], shape[3], shape[4] \div k[1]>>)

\* no squeeze at all
squeeze_keep(shape) == shape

\* Tensor.squeeze(3) of a 4-d shape
squeeze(shape) ==
    IF shape[4] = 1 THEN SubSeq(shape, 1, 3) ELSE shape

\* the statistics a forward pass normalises with: those of the batch in
\* training mode, the running buffers in evaluation mode
norm_of(L) ==
    IF L.training THEN [by |-> "batch", tracked |-> <<>>]
    ELSE [by |-> "running", tracked |-> L.tracked]

Failed(L, a, e, tr) ==
    [layer |-> [L EXCEPT !.tracked = tr],
     out |-> [status |-> e, input |-> a, training |-> L.training]]

\* XConv.__init__
XConvInit(cin, cout, k, d) ==
    [status |-> "ok", kind |-> "XConv", in_channels |-> cin, out_channels |-> cout,
     mid_channels |-> cout \div 4, kernel_size |-> k, dilation |-> d,
     training |-> TRUE, weights |-> "initial", tracked |-> <<0, 0, 0>>]

\* XConv.forward, lines 50-68, on the indices found by F.knn (B x Q rows);
\* tracked = <<mlp, stn, conv>>
xconv_apply(L, a, found) ==
    LET k == L.kernel_size
        kept == [b \in 1..a.B |-> [j \in 1..a.Q |->
                    every_nth(found[b][j], L.dilation)]]
        kn == Len(kept[1][1])
        p_hat == <<a.B, 3, a.Q, kn>>
        mlp1 == conv2d(p_hat, 3, L.mid_channels, 1, 1)
        mlp_bn == batch_norm(mlp1.value, L.training)
        t1 == <<bn_tracked(L.tracked[1], L.training), L.tracked[2], L.tracked[3]>>
        C == L.mid_channels + a.C
        stn1 == conv2d(p_hat, 3, k * k, 1, k)
        stn_bn == batch_norm(stn1.value, L.training)
        t2 == <<t1[1], bn_tracked(L.tracked[2], L.training), L.tracked[3]>>
        T == <<a.B, (a.B * k * k * stn1.value[3] * stn1.value[4]) \div (a.B * k * k), k, k>>
        x_hat == <<a.B, a.Q, kn, C>>
        prod == <<a.B, a.Q, k, C>>
        conv1 == conv2d(<<prod[1], prod[4], prod[2], prod[3]>>,
                        L.in_channels + L.mid_channels, L.out_channels, 1, k)
        conv_bn == batch_norm(conv1.value, L.training)
        t3 == <<t2[1], t2[2], bn_tracked(L.tracked[3], L.training)>>
    IN  IF mlp1.status # "ok" THEN Failed(L, a, mlp1.status, L.tracked)
        ELSE IF mlp_bn.status # "ok" THEN Failed(L, a, mlp_bn.status, L.tracked)
        ELSE IF stn1.status # "ok" THEN Failed(L, a, stn1.status, t1)
        ELSE IF stn_bn.status # "ok" THEN Failed(L, a, stn_bn.status, t1)
        ELSE IF T[2] # x_hat[2] \/ k # kn THEN Failed(L, a, "RuntimeError", t2)
        ELSE IF conv1.status # "ok" THEN Failed(L, a, conv1.status, t2)
        ELSE IF conv_bn.status # "ok" THEN Failed(L, a, conv_bn.status, t2)
        ELSE [layer |-> [L EXCEPT !.tracked = t3],
              out |-> [status |-> "ok", input |-> a, training |-> L.training,
                       q |-> a.Q,
                       shape |-> squeeze(conv_bn.value),
                       requested |-> Len(found[1][1]),
                       indices |-> kept, norm |-> norm_of(L)]]

\* XConv.forward(p, q, x): the layer afterwards and what the call returns
xconv_forward(L, a) ==
    CHOOSE r \in
      { IF found.status # "ok" THEN Failed(L, a, found.status, L.tracked)
        ELSE xconv_apply(L, a, found.value) :
        found \in { knn(points_of(a), queries_of(a),
                        L.kernel_size * L.dilation) } } : TRUE

\* SetAbstraction.__init__
SetAbstractionInit(mlp, radius, k) ==
    [status |-> "ok", kind |-> "SetAbstraction", mlp |-> mlp, radius |-> radius,
     k |-> k, training |-> TRUE, weights |-> "initial", tracked |-> <<0>>]

\* self.mlp of SetAbstraction on a (B, C, H, W) tensor: one Conv2d(1 x 1) and
\* BatchNorm2d per entry of mlp[1:]
sa_mlp(L, shape) ==
    IF Len(L.mlp) = 1 THEN Ok(shape)
    ELSE IF shape[2] # L.mlp[1] THEN Raise("RuntimeError")
    ELSE batch_norm(<<shape[1], L.mlp[Len(L.mlp)], shape[3], shape[4]>>, L.training)

\* the windows of nn.MaxPool2d([1, k]) along an axis of length W
pool_windows(W, k) ==
    [w \in 1..(W \div k) |-> ((w - 1) * k + 1)..(w * k)]

\* SetAbstraction.forward, lines 95-105, on a grouping of shape (B, G, W, 3)
sa_apply(L, a, G, W) ==
    LET x == <<a.B, 3 + a.C, G, W>>
        m == sa_mlp(L, x)
        t1 == IF Len(L.mlp) = 1 THEN L.tracked
              ELSE <<bn_tracked(L.tracked[1], L.training)>>
        pooled == max_pool(m.value, L.k)
    IN  IF m.status # "ok" THEN Failed(L, a, m.status, L.tracked)
        ELSE IF pooled.status # "ok" THEN Failed(L, a, pooled.status, t1)
        ELSE [layer |-> [L EXCEPT !.tracked = t1],
              out |-> [status |-> "ok", input |-> a, training |-> L.training,
                       q |-> a.Q,
                       shape |-> squeeze(pooled.value),
                       groups |-> G,
                       windows |-> pool_windows(W, L.k[1]),
                       norm |-> norm_of(L)]]

\* SetAbstraction.forward(p, q, x)
sa_forward(L, a) ==
    IF L.radius # None
    THEN CHOOSE r \in
           { IF found.status # "ok" THEN Failed(L, a, found.status, L.tracked)
             ELSE sa_apply(L, a, a.Q, Len(found.value[1][1])) :
             found \in { ball_point(points_of(a), queries_of(a),
                                    L.radius, L.k) } } : TRUE
    ELSE sa_apply(L, a, 1, a.P)

\* arguments of forward: batch size, points, queries, feature channels
\* (C = 0 stands for x = None)
Inputs == [B : {1, 2}, P : 1..MaxPts, Q : {1, 2}, C : {0, 2}]
XConvLayers ==
    { XConvInit(cin, cout, k, d) :
         cin \in {0, 2}, cout \in {4, 8}, k \in {1, 2}, d \in {1, 2} }
SetAbstractionLayers ==
    { SetAbstractionInit(mlp, radius, k) :
         mlp \in {<<3, 4>>, <<5, 8, 8>>}, radius \in {None, Some(2)},
         k \in {None, Some(2), Some(3), Some(4)} }

InitLayers ==
    /\ layer \in XConvLayers \cup SetAbstractionLayers
    /\ out = Idle
    /\ memo = <<>>
    /\ IdleRect /\ IdleFrames /\ IdleParse

\* forward: the layer's buffers and the returned value after the call
XConvForward ==
    /\ layer.status = "ok" /\ layer.kind = "XConv"
    /\ layer.training => \A n \in 1..3 : layer.tracked[n] < MaxForwards
    /\ \E a \in Inputs : \E r \in {xconv_forward(layer, a)} :
          /\ layer' = r.layer
          /\ out' = r.out
    /\ UNCHANGED <<memo, rectVars, frameVars, parseVars>>

SetAbstractionForward ==
    /\ layer.status = "ok" /\ layer.kind = "SetAbstraction"
    /\ layer.training => layer.tracked[1] < MaxForwards
    /\ \E a \in Inputs : \E r \in {sa_forward(layer, a)} :
          /\ layer' = r.layer
          /\ out' = r.out
    /\ UNCHANGED <<memo, rectVars, frameVars, parseVars>>

\* nn.Module.train()
Train ==
    /\ layer.status = "ok"
    /\ ~layer.training
    /\ layer' = [layer EXCEPT !.training = TRUE]
    /\ UNCHANGED <<out, memo, rectVars, frameVars, parseVars>>

\* nn.Module.eval()
Eval ==
    /\ layer.status = "ok"
    /\ layer.training
    /\ layer' = [layer EXCEPT !.training = FALSE]
    /\ UNCHANGED <<out, memo, rectVars, frameVars, parseVars>>

NextLayers == XConvForward \/ SetAbstractionForward \/ Train \/ Eval
SpecLayers == InitLayers /\ [][NextLayers]_vars

(***************************************************************************)
(* The same layers with an observer: memo keeps the input and output of    *)
(* one earlier call, whether only evaluation-mode activity followed it,    *)
(* and whether another call followed it.                                   *)
(***************************************************************************)
ProbeInputs == {a \in Inputs : a.P = MaxPts /\ a.B = a.Q}

Remember(o, training) ==
    <<[input |-> o.input, out |-> o, evalonly |-> ~training, again |-> FALSE]>>
Aged(training) ==
    IF memo = <<>> THEN memo
    ELSE <<[memo[1] EXCEPT !.evalonly = @ /\ ~training, !.again = TRUE]>>

Observed(r) ==
    /\ layer' = r.layer
    /\ out' = r.out
    /\ \/ memo' = Remember(r.out, layer.training)
       \/ memo' = Aged(layer.training)
    /\ UNCHANGED <<rectVars, frameVars, parseVars>>

XConvForwardObserved ==
    /\ layer.status = "ok" /\ layer.kind = "XConv"
    /\ layer.training => \A n \in 1..3 : layer.tracked[n] < MaxForwards
    /\ \E a \in ProbeInputs : \E r \in {xconv_forward(layer, a)} : Observed(r)

SetAbstractionForwardObserved ==
    /\ layer.status = "ok" /\ layer.kind = "SetAbstraction"
    /\ layer.training => layer.tracked[1] < MaxForwards
    /\ \E a \in ProbeInputs : \E r \in {sa_forward(layer, a)} : Observed(r)

TrainObserved ==
    /\ layer.status = "ok"
    /\ ~layer.training
    /\ layer' = [layer EXCEPT !.training = TRUE]
    /\ memo' = IF memo = <<>> THEN memo
               ELSE <<[memo[1] EXCEPT !.evalonly = FALSE]>>
    /\ UNCHANGED <<out, rectVars, frameVars, parseVars>>

NextObserved ==
    XConvForwardObserved \/ SetAbstractionForwardObserved \/ TrainObserved \/ Eval
SpecObserved == InitLayers /\ [][NextObserved]_vars

(***************************************************************************)
(* Claims about the layers                                                 *)
(***************************************************************************)
\* C7 as stated: for XConv with dilation 1, P >= kernel_size points and
\* Q <= P queries, the features returned for each batch entry have shape
\* (Q, out_channels).
C7_ShapeQueriesFirst ==
    (/\ layer.kind = "XConv" /\ out.status = "ok"
     /\ layer.dilation = 1
     /\ out.input.Q <= out.input.P /\ out.input.P >= layer.kernel_size) =>
        out.shape = <<out.input.B, out.input.Q, layer.out_channels>>

\* C7 amended: under the same conditions forward returns whenever x carries
\* in_channels channels and batch norm accepts the batch (evaluation mode,
\* or B * Q > 1), and the features it returns have shape
\* (out_channels, Q) for each batch entry.
C7_ShapeChannelsFirst ==
    (/\ layer.kind = "XConv" /\ out.status # "idle"
     /\ layer.dilation = 1
     /\ out.input.Q <= out.input.P /\ out.input.P >= layer.kernel_size) =>
        /\ out.status = "ok" =>
              out.shape = <<out.input.B, layer.out_channels, out.input.Q>>
        /\ (/\ out.input.C = layer.in_channels
            /\ (~out.training \/ out.input.B * out.input.Q > 1))
              => out.status = "ok"

C7_Witness ==
    /\ layer.kind = "XConv" /\ out.status = "ok"
    /\ layer.dilation = 1 /\ layer.kernel_size = 2
    /\ layer.in_channels = 2 /\ layer.out_channels = 8
    /\ out.input = [B |-> 1, P |-> 3, Q |-> 2, C |-> 2]
    /\ out.shape = <<1, 8, 2>>

\* C8: a SetAbstraction layer in global mode (radius = None) pools exactly
\* one neighbourhood, the whole set of P points, whatever P and Q are.
C8_GlobalPoolsWholeSet ==
    (/\ layer.kind = "SetAbstraction" /\ layer.radius = None
     /\ out.status = "ok") =>
        /\ out.groups = 1
        /\ out.windows = <<1..out.input.P>>

\* C10: XConv.forward asks F.knn for kernel_size * dilation neighbours of
\* each query and keeps those at positions 0, d, 2d, ..., (k-1)d of the
\* returned order: exactly kernel_size neighbours per query.
C10_EveryDilationthNeighbour ==
    (layer.kind = "XConv" /\ out.status = "ok") =>
        LET a == out.input
            k == layer.kernel_size
            d == layer.dilation
            nearest == knn(points_of(a), queries_of(a), k * d).value
        IN  /\ out.requested = k * d
            /\ \A b \in 1..a.B : \A j \in 1..a.Q :
                  /\ Len(out.indices[b][j]) = k
                  /\ \A t \in 0..(k - 1) :
                        out.indices[b][j][t + 1] = nearest[b][j][t * d + 1]

C10_Witness ==
    /\ layer.kind = "XConv" /\ out.status = "ok"
    /\ layer.kernel_size = 2 /\ layer.dilation = 2
    /\ out.input.P = 4 /\ out.input.Q = 2 /\ out.input.B = 2
    /\ out.requested = 4
    /\ out.indices[1][1] = <<3, 1>>
    /\ out.indices[1][1] #
          SubSeq(knn(points_of(out.input), queries_of(out.input), 4).value[1][1], 1, 2)

\* C9 as stated: no forward call changes the weights or the normalisation
\* statistics of the layer, and a call returns what any earlier call with
\* the same input returned.
C9_AnyForwardKeepsState ==
    [][/\ layer'.weights = layer.weights
       /\ layer'.tracked = layer.tracked
       /\ (/\ memo' # <<>> /\ memo'[1].again
           /\ out'.input = memo'[1].input) => out' = memo'[1].out]_vars

\* C9 amended: in evaluation mode no forward call changes the weights or the
\* normalisation statistics of the layer, and a call returns what an earlier
\* evaluation-mode call with the same input returned when only
\* evaluation-mode calls happened in between.
C9_EvalForwardKeepsState ==
    [][/\ (~layer.training /\ ~layer'.training) => layer' = layer
       /\ layer'.weights = layer.weights
       /\ (/\ memo' # <<>> /\ memo'[1].again /\ memo'[1].evalonly
           /\ out'.input = memo'[1].input) => out' = memo'[1].out]_vars

C9_Witness ==
    /\ layer.kind = "XConv" /\ ~layer.training
    /\ layer.tracked = <<1, 1, 1>>
    /\ memo # <<>> /\ memo[1].again /\ memo[1].evalonly
    /\ out.status = "ok"
    /\ out.input = memo[1].input
    /\ out.norm = [by |-> "running", tracked |-> <<1, 1, 1>>]

====
